---- MODULE Spec2Model ----
(***************************************************************************)
(* State-machine model of the multi-agent orchestrator                     *)
(* (backend/app/agents/orchestrator.py), of the task planner               *)
(* (backend/app/agents/task_planner.py), of the prompt registry            *)
(* (backend/app/prompts/registry.py) and of the rate limiter's token       *)
(* bucket (backend/app/middleware/rate_limit.py).                          *)
(*                                                                         *)
(* Python values are modelled as follows.                                  *)
(*   - a str that is only compared is a TLA+ string; None is the string    *)
(*     NoneStr (no program string of the model equals it);                 *)
(*   - a str that is concatenated or joined (an executor's output, the     *)
(*     synthesis) is a sequence of text chunks, "" being << >>;            *)
(*   - a dict is a record whose DOMAIN is the dict's key set; a None dict  *)
(*     is the record NoneDict;                                             *)
(*   - a list is a sequence, a set is a set.                               *)
(***************************************************************************)
EXTENDS Naturals, Integers, Sequences, FiniteSets, TLC

VARIABLES
    tasks,        \* List[AgentTask]: the list decompose_task built and execute_tasks works on
    completed,    \* execute_tasks local: set of task ids marked completed
    ready_tasks,  \* execute_tasks local: indices (into tasks) of the current wave
    pc,           \* position of execute_tasks
    tpc,          \* position of each execute_task coroutine of the current wave
    rets,         \* value returned by each execute_task call
    calls,        \* how many times execute_task was called on each task
    agents,       \* MultiAgentOrchestrator._agents: the kinds that have a cached executor
    iters,        \* how many times the body of the while loop was entered
    run,          \* what obtaining and running the executor did for each task
    hist,         \* the values execute_task assigned to each task's status, in order
    cpc,          \* position of execute_complex_task
    decompose_error, \* the exception the except branch of decompose_task caught
    synthesis,    \* what synthesize_results returned, tagged with the branch that returned it
    report,       \* the dict execute_complex_task returned
    ppc,          \* position of TaskPlanner.plan
    plan,         \* the ExecutionPlan TaskPlanner.plan returned
    plan_error,   \* the exception TaskPlanner.plan caught, as str(e)
    validation,   \* the dict validate_constraints returned
    vconstraints, \* the constraints validate_constraints was called with
    rpc,          \* position of TaskPlanner.replan
    replan_ret,   \* which plan object replan returned
    updated_plan, \* the ExecutionPlan object the plan call nested in replan created
    oracle,       \* what each self.llm.ainvoke of replan did, in call order
    progress,     \* the dict get_progress returned
    cache,        \* PromptRegistry._cache: name -> list of PromptVersion
    files,        \* the storage directory: name -> the list dumped to <name>.json
    registered,   \* what each register call on the instance returned, by name, in call order
    step_record,  \* one step record of the reply TaskPlanner.plan parsed
    step,         \* the PlanStep the loop body of plan built from step_record
    first_call,   \* the list as the first call of execute_tasks left it, once called again
    redis,        \* what the cache holds under rate_limit:<key>: << >> (nothing) or <<tokens>>
    bpc,          \* position of each call of TokenBucket.consume for the key
    bucket_data,  \* consume local of each call: what cache.get returned
    allowed       \* what each call of consume returned

execVars == <<tasks, completed, ready_tasks, pc, tpc, rets, calls, agents, iters, run, hist>>

complexVars == <<cpc, decompose_error, synthesis, report>>

callVars == <<validation, vconstraints, rpc, replan_ret, updated_plan, oracle, progress>>

registryVars == <<cache, files, registered>>

stepVars == <<step_record, step>>

bucketVars == <<redis, bpc, bucket_data, allowed>>

libVars == <<registryVars, stepVars, first_call, bucketVars>>

planVars == <<ppc, plan, plan_error, callVars, libVars>>

vars == <<execVars, complexVars, planVars>>

----------------------------------------------------------------------------
(* Bounds of the model *)

\* most tasks in one decomposition
MaxTasks == 3

\* most register calls for one name
MaxRegs == 3

\* most requests of one client in flight together
MaxCallers == 4

\* TokenBucket.capacity: the burst_size of the middleware
Capacity == 2

\* most dependency entries in one decomposition
MaxEdges == 2

\* most steps in one plan
MaxSteps == 2

\* most steps in a plan given to get_progress
MaxGiven == 3

----------------------------------------------------------------------------
(* Python values *)

NoneStr == "<None>"

NoneDict == [py_none |-> TRUE]

\* a dependency entry that is a JSON list or object: not hashable
Unhashable == "<unhashable>"

\* the ids the decomposition names its tasks with, in list position order
TaskIds == <<"task_1", "task_2", "task_3", "task_4", "task_5">>

\* an id no task of the list has
DanglingId == "task_x"

AgentTypes == {"research", "docs", "sheets", "slides"}

RECURSIVE KSubsets(_, _)
KSubsets(S, k) ==
    IF k = 0 THEN {{}}
    ELSE LET R == KSubsets(S, k - 1)
         IN  R \cup {r \cup {x} : r \in R, x \in S}

----------------------------------------------------------------------------
(* AgentTask *)

\* AgentTask.__init__: a fresh task is pending, with no result and no error
AgentTask(task_id, agent_type, description, dependencies) ==
    [task_id      |-> task_id,
     agent_type   |-> agent_type,
     description  |-> description,
     dependencies |-> dependencies,
     metadata     |-> [x \in {} |-> x],
     status       |-> "pending",
     result       |-> NoneDict,
     error        |-> NoneStr]

Idx == 1..Len(tasks)

\* dict.get(key, default)
DictGet(d, key, default) == IF key \in DOMAIN d THEN d[key] ELSE default

----------------------------------------------------------------------------
(* The executors: external collaborators behind agent.run *)

\* the text a successful run of the i-th task of the list produces
OutputOf(i) == <<"out", i>>

\* nothing was obtained or run for the task yet
NotRun == [kind |-> "none"]

\* what awaiting agent.run(...) on the i-th task may do: return a dict with a
\* true or false "success" (with or without "output" / "error"), or raise
RunOutcomes(i) ==
    {[kind |-> "return", value |-> [success |-> TRUE, output |-> OutputOf(i)]],
     [kind |-> "return", value |-> [success |-> TRUE]],
     [kind |-> "return", value |-> [success |-> FALSE]],
     [kind |-> "return", value |-> [success |-> FALSE, error |-> "agent error"]],
     [kind |-> "raise", msg |-> "agent raised"]}

----------------------------------------------------------------------------
(* MultiAgentOrchestrator._get_agent *)

\* the kinds _get_agent can construct an executor for
Constructible == {"research", "docs"}

GetAgentRaises(agent_type) ==
    agent_type \notin agents /\ agent_type \notin Constructible

\* str(ValueError(f"Unknown agent type: {agent_type}"))
UnknownAgentMsg(agent_type) ==
    CASE agent_type = "sheets" -> "Unknown agent type: sheets"
      [] agent_type = "slides" -> "Unknown agent type: slides"
      [] OTHER -> "Unknown agent type"

\* the cache after a call that did not raise
AgentsAfterGet(agent_type) == agents \cup {agent_type}

\* synthesize_results has not returned
NotSynthesized == [by |-> "none", text |-> << >>]

----------------------------------------------------------------------------
(* MultiAgentOrchestrator.decompose_task *)

\* the task description execute_complex_task is called with
Goal == "goal"

\* a reply text json.loads rejects
NotJson == [not_json |-> TRUE]

\* the dependency entries <<task, entry>> of a decomposition of n tasks: the
\* id of a task for any task and, for the last task, an id of no task or a
\* JSON list
DepEntries(n) ==
    ((1..n) \X {TaskIds[j] : j \in 1..n}) \cup ({n} \X {DanglingId, Unhashable})

\* the order dependency entries are listed in
DepOrder == TaskIds \o <<DanglingId, Unhashable>>

DepsOf(i, E) == SelectSeq(DepOrder, LAMBDA d : <<i, d>> \in E)

\* the kinds the decomposition assigns to n tasks: one _get_agent constructs,
\* and for at most one task one it does not
PlannedKinds(n) ==
    {[i \in 1..n |-> IF i = k THEN "sheets" ELSE "research"] : k \in 0..n}

\* the ids the decomposition gives n tasks of these kinds: all different or,
\* when every kind has an executor, the last task under the id of the first
PlannedIds(n, kind) ==
    {[i \in 1..n |-> TaskIds[i]]} \cup
    (IF n >= 2 /\ \A i \in 1..n : kind[i] \in Constructible
     THEN {[i \in 1..n |-> IF i = n THEN TaskIds[1] ELSE TaskIds[i]]} ELSE {})

\* a record without the keys in `drop`
Without(rec, drop) == [k \in DOMAIN rec \ drop |-> rec[k]]

\* the "tasks" array of a reply: n records, the one at `at` (if any) without
\* the keys in `drop`
JsonTasks(n, ids, kind, E, at, drop) ==
    [i \in 1..n |->
        Without([task_id      |-> ids[i],
                 agent_type   |-> kind[i],
                 description  |-> "d",
                 dependencies |-> DepsOf(i, E)], IF i = at THEN drop ELSE {})]

\* the key a reply may leave out of one record, as <<record, keys left out>>:
\* none, or one key of one record of a reply that declares no dependency
Omissions(n, E) ==
    {<<1, {}>>} \cup
    (IF E = {} THEN (1..n) \X {{"task_id"}, {"agent_type"}, {"description"}, {"dependencies"}}
     ELSE {})

\* what awaiting self.llm.ainvoke may do in decompose_task besides returning
\* JSON with a non-empty "tasks" array: raise, or return a text that is not
\* JSON, JSON without "tasks", or JSON with no task
OtherReplies ==
    {[kind |-> "raise"],
     [kind |-> "content", json |-> NotJson],
     [kind |-> "content", json |-> [steps |-> << >>]],
     [kind |-> "content", json |-> [tasks |-> << >>]]}

\* a reply whose text is JSON with a "tasks" array of n records
TaskReply(n, ids, kind, E, at, drop) ==
    [kind |-> "content", json |-> [tasks |-> JsonTasks(n, ids, kind, E, at, drop)]]

RequiredKeys == {"task_id", "agent_type", "description"}

\* whether the try block raises: the call, json.loads, plan["tasks"] or t[...]
DecomposeRaises(reply) ==
    \/ reply.kind = "raise"
    \/ reply.json = NotJson
    \/ "tasks" \notin DOMAIN reply.json
    \/ \E i \in 1..Len(reply.json.tasks) : ~(RequiredKeys \subseteq DOMAIN reply.json.tasks[i])

\* nothing was raised in the try block
NoException == [exc |-> NoneStr, at |-> 0]

\* the exception the except branch catches and the record whose t[...]
\* raised it (0: raised before any record was read)
DecomposeCaught(reply) ==
    IF reply.kind = "raise" THEN [exc |-> "llm.ainvoke raised", at |-> 0]
    ELSE IF reply.json = NotJson THEN [exc |-> "JSONDecodeError", at |-> 0]
    ELSE IF "tasks" \notin DOMAIN reply.json THEN [exc |-> "KeyError", at |-> 0]
    ELSE IF \E i \in 1..Len(reply.json.tasks) :
               ~(RequiredKeys \subseteq DOMAIN reply.json.tasks[i])
    THEN [exc |-> "KeyError",
          at  |-> CHOOSE i \in 1..Len(reply.json.tasks) :
                     /\ ~(RequiredKeys \subseteq DOMAIN reply.json.tasks[i])
                     /\ \A j \in 1..(i - 1) :
                           RequiredKeys \subseteq DOMAIN reply.json.tasks[j]]
    ELSE NoException

\* the except branch: a single research task for the whole description
FallbackTasks == <<AgentTask("task_1", "research", Goal, << >>)>>

\* DecomposeTask returning the tasks built before the record that raised
DecomposeTaskPartial(reply) ==
    LET parsed(n) == [i \in 1..n |->
                         AgentTask(reply.json.tasks[i].task_id,
                                   reply.json.tasks[i].agent_type,
                                   reply.json.tasks[i].description,
                                   DictGet(reply.json.tasks[i], "dependencies", << >>))]
    IN  IF ~DecomposeRaises(reply) THEN parsed(Len(reply.json.tasks))
        ELSE IF DecomposeCaught(reply).at > 1 THEN parsed(DecomposeCaught(reply).at - 1)
        ELSE FallbackTasks

\* the list decompose_task returns
DecomposeTask(reply) ==
    IF DecomposeRaises(reply) THEN FallbackTasks
    ELSE [i \in 1..Len(reply.json.tasks) |->
             AgentTask(reply.json.tasks[i].task_id,
                       reply.json.tasks[i].agent_type,
                       reply.json.tasks[i].description,
                       DictGet(reply.json.tasks[i], "dependencies", << >>))]

----------------------------------------------------------------------------
(* MultiAgentOrchestrator.execute_task: one coroutine per task of the wave *)

\* FailWith with the assignment of task.error left out
FailWithoutError(i, msg) ==
    /\ tasks' = [tasks EXCEPT ![i].status = "failed"]
    /\ rets' = [rets EXCEPT ![i] = [success |-> FALSE, error |-> msg]]

\* FailWith failing also the pending tasks that depend on the task
FailWithDependents(i, msg) ==
    /\ tasks' = [j \in 1..Len(tasks) |->
                    IF j = i
                    THEN [tasks[j] EXCEPT !.status = "failed", !.error = msg]
                    ELSE IF /\ tasks[j].status = "pending"
                            /\ \E k \in 1..Len(tasks[j].dependencies) :
                                  tasks[j].dependencies[k] = tasks[i].task_id
                    THEN [tasks[j] EXCEPT !.status = "failed", !.error = msg]
                    ELSE tasks[j]]
    /\ rets' = [rets EXCEPT ![i] = [success |-> FALSE, error |-> msg]]

\* the except branch: the task fails with str(e), which is also returned
FailWith(i, msg) ==
    /\ tasks' = [tasks EXCEPT ![i].status = "failed", ![i].error = msg]
    /\ rets' = [rets EXCEPT ![i] = [success |-> FALSE, error |-> msg]]

\* MayStart for a loop that awaits each task of the wave before the next
MayStartAfterFinished(i) ==
    /\ pc = "gather"
    /\ \E k \in 1..Len(ready_tasks) :
          /\ ready_tasks[k] = i
          /\ tpc[i] = "scheduled"
          /\ \A j \in 1..(k - 1) : tpc[ready_tasks[j]] = "returned"

\* the coroutines gather starts run in list order up to their first await
MayStart(i) ==
    /\ pc = "gather"
    /\ \E k \in 1..Len(ready_tasks) :
          /\ ready_tasks[k] = i
          /\ tpc[i] = "scheduled"
          /\ \A j \in 1..(k - 1) : tpc[ready_tasks[j]] # "scheduled"

\* from the call to the await of agent.run: the task is running; an unknown
\* kind raises inside the try and the task has failed before any await
StartTask(i) ==
    /\ MayStart(i)
    /\ calls' = [calls EXCEPT ![i] = @ + 1]
    /\ IF GetAgentRaises(tasks[i].agent_type)
       THEN /\ FailWith(i, UnknownAgentMsg(tasks[i].agent_type))
            /\ tpc' = [tpc EXCEPT ![i] = "returned"]
            /\ run' = [run EXCEPT ![i] = [kind |-> "no_agent",
                                          msg |-> UnknownAgentMsg(tasks[i].agent_type)]]
            /\ hist' = [hist EXCEPT ![i] = @ \o <<"running", tasks'[i].status>>]
            /\ UNCHANGED agents
       ELSE /\ tasks' = [tasks EXCEPT ![i].status = "running"]
            /\ agents' = AgentsAfterGet(tasks[i].agent_type)
            /\ tpc' = [tpc EXCEPT ![i] = "awaiting"]
            /\ hist' = [hist EXCEPT ![i] = Append(@, "running")]
            /\ UNCHANGED <<rets, run>>
    /\ UNCHANGED <<completed, ready_tasks, pc, iters, complexVars, planVars>>

\* AfterReturn storing the returned dict as the result whatever its success
AfterReturnKeepingResult(i, value) ==
    IF DictGet(value, "success", FALSE)
    THEN /\ tasks' = [tasks EXCEPT ![i].status = "completed", ![i].result = value]
         /\ rets' = [rets EXCEPT ![i] = value]
    ELSE /\ tasks' = [tasks EXCEPT ![i].status = "failed", ![i].result = value,
                                   ![i].error = DictGet(value, "error", "Unknown error")]
         /\ rets' = [rets EXCEPT ![i] = value]

\* the status, result, error and return value after agent.run returned `value`
AfterReturn(i, value) ==
    IF DictGet(value, "success", FALSE)
    THEN /\ tasks' = [tasks EXCEPT ![i].status = "completed", ![i].result = value]
         /\ rets' = [rets EXCEPT ![i] = value]
    ELSE /\ tasks' = [tasks EXCEPT ![i].status = "failed",
                                   ![i].error = DictGet(value, "error", "Unknown error")]
         /\ rets' = [rets EXCEPT ![i] = value]

\* from the resumption after agent.run to the return of execute_task
FinishTask(i) ==
    /\ pc = "gather"
    /\ tpc[i] = "awaiting"
    /\ \E o \in RunOutcomes(i) :
          /\ IF o.kind = "return" THEN AfterReturn(i, o.value) ELSE FailWith(i, o.msg)
          /\ run' = [run EXCEPT ![i] = o]
    /\ tpc' = [tpc EXCEPT ![i] = "returned"]
    /\ hist' = [hist EXCEPT ![i] = Append(@, tasks'[i].status)]
    /\ UNCHANGED <<completed, ready_tasks, pc, calls, agents, iters, complexVars, planVars>>

----------------------------------------------------------------------------
(* MultiAgentOrchestrator.execute_tasks *)

\* all(dep in completed for dep in dependencies): "raise" when the scan
\* reaches an unhashable entry, which `in` cannot look up in a set
RECURSIVE AllDepsIn(_, _)
AllDepsIn(deps, done) ==
    IF deps = << >> THEN "true"
    ELSE IF Head(deps) = Unhashable THEN "raise"
    ELSE IF Head(deps) \notin done THEN "false"
    ELSE AllDepsIn(Tail(deps), done)

\* IsReady testing the first dependency only
IsReadyFirstDepOnly(i) ==
    /\ tasks[i].status = "pending"
    /\ \/ tasks[i].dependencies = << >>
       \/ tasks[i].dependencies[1] \in completed

\* IsReady taking a failed task up again
IsReadyOrFailed(i) ==
    /\ tasks[i].status \in {"pending", "failed"}
    /\ AllDepsIn(tasks[i].dependencies, completed) = "true"

IsReady(i) ==
    /\ tasks[i].status = "pending"
    /\ AllDepsIn(tasks[i].dependencies, completed) = "true"

\* the comprehension scans the dependencies of every pending task
ReadyRaises ==
    \E i \in Idx :
        /\ tasks[i].status = "pending"
        /\ AllDepsIn(tasks[i].dependencies, completed) = "raise"

Failed == {i \in Idx : tasks[i].status = "failed"}

\* ReadyTasks scheduling nothing more once a task has failed
ReadyTasksUnlessFailed ==
    IF Failed # {} THEN << >> ELSE SelectSeq([i \in Idx |-> i], IsReady)

\* ready_tasks, as indices in list order
ReadyTasks == SelectSeq([i \in Idx |-> i], IsReady)

\* the call: task_map and the empty completed set
ExecuteTasksEnter ==
    /\ pc = "called"
    /\ completed' = {}
    /\ pc' = "while"
    /\ UNCHANGED <<tasks, ready_tasks, tpc, rets, calls, agents, iters, run, hist, complexVars, planVars>>

\* WaveFinished for a gather that gives up at the first failed task
WaveFinishedOrFailed ==
    \/ \A k \in 1..Len(ready_tasks) : tpc[ready_tasks[k]] = "returned"
    \/ \E k \in 1..Len(ready_tasks) : tasks[ready_tasks[k]].status = "failed"

\* WaveFinished for a wait that ends with the first coroutine to return
WaveFinishedFirst ==
    \E k \in 1..Len(ready_tasks) : tpc[ready_tasks[k]] = "returned"

\* asyncio.gather returns once every coroutine of the wave has returned
WaveFinished == \A k \in 1..Len(ready_tasks) : tpc[ready_tasks[k]] = "returned"

\* the set of the elements of a sequence
Range(seq) == {seq[k] : k \in 1..Len(seq)}

\* AfterNoReadyTasks for a loop that continues instead of breaking
ContinueOnNoReadyTasks == "while"

\* where execute_tasks goes when no task is ready: both branches break
\* out of the loop, to the return
AfterNoReadyTasks == "returned"

\* the iteration count; it stops counting above every length the loop can reach
CountIteration == IF iters < MaxTasks + 3 THEN iters + 1 ELSE iters

\* one pass from the loop test to the gather, a break or the return
WhileIteration ==
    /\ pc = "while"
    /\ IF Cardinality(completed) < Len(tasks)
       THEN /\ iters' = CountIteration
            /\ IF ReadyRaises
               THEN /\ pc' = "raised"
                    /\ UNCHANGED <<ready_tasks, tpc>>
               ELSE IF ReadyTasks = << >>
               THEN /\ pc' = AfterNoReadyTasks
                    /\ ready_tasks' = << >>
                    /\ UNCHANGED tpc
               ELSE /\ pc' = "gather"
                    /\ ready_tasks' = ReadyTasks
                    /\ tpc' = [i \in Idx |-> IF i \in Range(ReadyTasks)
                                              THEN "scheduled" ELSE tpc[i]]
       ELSE /\ pc' = "returned"
            /\ UNCHANGED <<ready_tasks, tpc, iters>>
    /\ UNCHANGED <<tasks, completed, rets, calls, agents, run, hist, complexVars, planVars>>

\* after the gather: the ids of the wave's completed tasks join completed
MarkCompleted ==
    /\ pc = "gather"
    /\ WaveFinished
    /\ completed' = completed \cup
          {tasks[ready_tasks[k]].task_id :
             k \in {j \in 1..Len(ready_tasks) : tasks[ready_tasks[j]].status = "completed"}}
    /\ pc' = "while"
    /\ UNCHANGED <<tasks, ready_tasks, tpc, rets, calls, agents, iters, run, hist, complexVars, planVars>>

----------------------------------------------------------------------------
(* MultiAgentOrchestrator.synthesize_results *)

\* sep.join(strs)
RECURSIVE JoinStr(_, _)
JoinStr(sep, strs) ==
    IF strs = << >> THEN << >>
    ELSE IF Len(strs) = 1 THEN strs[1]
    ELSE strs[1] \o sep \o JoinStr(sep, Tail(strs))

\* BlankLine for a join by a single line break
SingleNewline == <<"\n">>

\* the separator "\n\n"
BlankLine == <<"\n\n">>

\* bool(dict): None and {} are false
Truthy(d) == d # NoneDict /\ DOMAIN d # {}

\* the tasks the fallback joins
InFallback(i) == tasks[i].status = "completed" /\ Truthy(tasks[i].result)

\* the except branch: the outputs of the completed tasks, joined by a blank line
FallbackSynthesis ==
    LET sel == SelectSeq([i \in Idx |-> i], InFallback)
    IN  JoinStr(BlankLine, [k \in 1..Len(sel) |-> DictGet(tasks[sel[k]].result, "output", << >>)])

\* the text the synthesis call returns when it succeeds
LlmSynthesis == <<"llm synthesis">>

----------------------------------------------------------------------------
(* MultiAgentOrchestrator.execute_complex_task *)

\* step 1: decompose_task; its fallback keeps every failure inside it
Decompose ==
    /\ cpc = "start"
    /\ \E n \in 0..MaxTasks :
         \E E \in KSubsets(DepEntries(n), MaxEdges) :
           \E kind \in PlannedKinds(n) : \E ids \in PlannedIds(n, kind) :
             \E reply \in IF n = 0 THEN OtherReplies
                          ELSE {TaskReply(n, ids, kind, E, at[1], at[2]) : at \in Omissions(n, E)} :
               /\ tasks' = DecomposeTask(reply)
               /\ decompose_error' = DecomposeCaught(reply)
               /\ tpc' = [i \in 1..Len(tasks') |-> "new"]
               /\ rets' = [i \in 1..Len(tasks') |-> NoneDict]
               /\ calls' = [i \in 1..Len(tasks') |-> 0]
               /\ run' = [i \in 1..Len(tasks') |-> NotRun]
               /\ hist' = [i \in 1..Len(tasks') |-> << >>]
    /\ cpc' = "execute"
    /\ pc' = "called"
    /\ UNCHANGED <<completed, ready_tasks, agents, iters, synthesis, report, planVars>>

\* step 3: synthesize_results, by the synthesis call or, when it raises, the fallback
SynthesizeResults ==
    /\ cpc = "execute"
    /\ pc = "returned"
    /\ \/ synthesis' = [by |-> "llm", text |-> LlmSynthesis]
       \/ synthesis' = [by |-> "fallback", text |-> FallbackSynthesis]
    /\ cpc' = "synthesized"
    /\ UNCHANGED <<execVars, decompose_error, report, planVars>>

\* Successful counting every task that did not fail
SuccessfulNotFailed == Cardinality({i \in Idx : tasks[i].status # "failed"})

\* sum(1 for t in completed_tasks if t.status == "completed")
Successful == Cardinality({i \in Idx : tasks[i].status = "completed"})

\* sum(1 for t in completed_tasks if t.status == "failed")
NumFailed == Cardinality({i \in Idx : tasks[i].status = "failed"})

\* the statistics and the result dict
BuildReport ==
    /\ cpc = "synthesized"
    /\ report' = [success    |-> Successful > 0,
                  synthesis  |-> synthesis.text,
                  tasks      |-> [i \in Idx |->
                                    [task_id     |-> tasks[i].task_id,
                                     agent_type  |-> tasks[i].agent_type,
                                     description |-> tasks[i].description,
                                     status      |-> tasks[i].status,
                                     result      |-> tasks[i].result,
                                     error       |-> tasks[i].error]],
                  statistics |-> [total_tasks |-> Len(tasks),
                                  successful  |-> Successful,
                                  failed      |-> NumFailed]]
    /\ cpc' = "done"
    /\ UNCHANGED <<execVars, decompose_error, synthesis, planVars>>

\* str(TypeError) of the membership test on an unhashable entry
UnhashableMsg == "unhashable type: 'list'"

\* the except branch of execute_complex_task: execute_tasks raised
ReportError ==
    /\ cpc = "execute"
    /\ pc = "raised"
    /\ report' = [success   |-> FALSE,
                  error     |-> UnhashableMsg,
                  synthesis |-> NoneDict,
                  tasks     |-> << >>]
    /\ cpc' = "done"
    /\ UNCHANGED <<execVars, decompose_error, synthesis, planVars>>

----------------------------------------------------------------------------
(* TaskPlanner: resource estimation.  Times are seconds and tokens are     *)
(* counts; a cost is a whole number of 1/10000 USD and a multiplier a      *)
(* whole number of tenths, so that base cost x multiplier is exact.        *)

\* self.time_coefficients.get(agent_type, 30)
TimeCoefficient(agent_type) ==
    CASE agent_type = "research" -> 30
      [] agent_type = "docs"     -> 20
      [] agent_type = "sheets"   -> 15
      [] agent_type = "slides"   -> 25
      [] OTHER                   -> 30

\* self.cost_coefficients.get(agent_type, 0.02), in 1/1000 USD
CostCoefficient(agent_type) ==
    CASE agent_type = "research" -> 20
      [] agent_type = "docs"     -> 30
      [] agent_type = "sheets"   -> 20
      [] agent_type = "slides"   -> 30
      [] OTHER                   -> 20

\* self.token_coefficients.get(agent_type, 2000)
TokenCoefficient(agent_type) ==
    CASE agent_type = "research" -> 2000
      [] agent_type = "docs"     -> 3000
      [] agent_type = "sheets"   -> 1500
      [] agent_type = "slides"   -> 2500
      [] OTHER                   -> 2000

\* {"low": 0.7, "medium": 1.0, "high": 1.5}.get(step_data.get("complexity",
\* "medium"), 1.0), in tenths
ComplexityMultiplier(step_data) ==
    LET c == DictGet(step_data, "complexity", "medium")
    IN  CASE c = "low"    -> 7
          [] c = "medium" -> 10
          [] c = "high"   -> 15
          [] OTHER        -> 10

\* int(x) of a non-negative number of tenths
IntOfTenths(x) == x \div 10

\* the PlanStep built from one step record of the reply
PlanStep(step_data) ==
    [step_id          |-> step_data.step_id,
     description      |-> step_data.description,
     agent_type       |-> step_data.agent_type,
     estimated_time   |-> IntOfTenths(TimeCoefficient(step_data.agent_type)
                                        * ComplexityMultiplier(step_data)),
     estimated_cost   |-> CostCoefficient(step_data.agent_type)
                            * ComplexityMultiplier(step_data),
     estimated_tokens |-> IntOfTenths(TokenCoefficient(step_data.agent_type)
                                        * ComplexityMultiplier(step_data)),
     dependencies     |-> DictGet(step_data, "dependencies", << >>),
     success_criteria |-> DictGet(step_data, "success_criteria", << >>),
     risks            |-> DictGet(step_data, "risks", << >>),
     status           |-> "planned",
     actual_time      |-> << >>,
     actual_cost      |-> << >>,
     result           |-> NoneDict]

\* SumOver leaving the first step out
RECURSIVE SumOverTail(_, _)
SumOverTail(steps, field) ==
    IF Len(steps) <= 1 THEN 0
    ELSE steps[Len(steps)][field] + SumOverTail(SubSeq(steps, 1, Len(steps) - 1), field)

\* sum(f(s) for s in steps)
RECURSIVE SumOver(_, _)
SumOver(steps, field) ==
    IF steps = << >> THEN 0 ELSE Head(steps)[field] + SumOver(Tail(steps), field)

\* ExecutionPlan(goal, steps, totals, constraints, created_at)
ExecutionPlan(goal, steps, constraints) ==
    [goal                   |-> goal,
     steps                  |-> steps,
     total_estimated_time   |-> SumOver(steps, "estimated_time"),
     total_estimated_cost   |-> SumOver(steps, "estimated_cost"),
     total_estimated_tokens |-> SumOver(steps, "estimated_tokens"),
     constraints            |-> constraints,
     created_at             |-> "utcnow",
     updated_at             |-> NoneStr]

----------------------------------------------------------------------------
(* TaskPlanner.plan *)

\* the kinds a reply gives its steps: the four of the tables and one of none
StepKinds == AgentTypes \cup {"email"}

\* the complexities a reply gives: the three of the table, one of none, or no key
Complexities == {"low", "medium", "high", "extreme", NoneStr}

\* the i-th step record of a reply
StepData(i, kind, complexity) ==
    LET base == [step_id     |-> TaskIds[i],
                 description |-> "d",
                 agent_type  |-> kind]
    IN  IF complexity = NoneStr THEN base
        ELSE [k \in DOMAIN base \cup {"complexity"} |->
                 IF k = "complexity" THEN complexity ELSE base[k]]

\* what awaiting self.llm.ainvoke may do in plan besides returning JSON with
\* a "steps" array of complete records: raise, or return a text that is not
\* JSON, JSON without "steps", or JSON whose step lacks a required key
OtherPlanReplies ==
    {[kind |-> "raise"],
     [kind |-> "content", json |-> NotJson],
     [kind |-> "content", json |-> [tasks |-> << >>]],
     [kind |-> "content", json |-> [steps |-> <<[step_id |-> "task_1", description |-> "d"]>>]]}

\* a reply whose text is JSON with a "steps" array of n records
StepsReply(n, kc) ==
    [kind |-> "content",
     json |-> [steps |-> [i \in 1..n |-> StepData(i, kc[i][1], kc[i][2])]]]

StepKeys == {"step_id", "description", "agent_type"}

\* str(e) of what the try block of plan raises, NoneStr when it does not raise
PlanRaises(reply) ==
    IF reply.kind = "raise" THEN "llm unavailable"
    ELSE IF reply.json = NotJson THEN "JSONDecodeError"
    ELSE IF "steps" \notin DOMAIN reply.json THEN "KeyError: 'steps'"
    ELSE IF \E i \in 1..Len(reply.json.steps) : ~(StepKeys \subseteq DOMAIN reply.json.steps[i])
         THEN "KeyError"
    ELSE NoneStr

\* the constraints a caller passes
PlanConstraints == {[max_time |-> 50], [k \in {} |-> 0]}

\* plan(goal, context, constraints): the except branch logs and re-raises
PlanWith(reply, constraints) ==
    IF PlanRaises(reply) # NoneStr
    THEN /\ ppc' = "raised"
         /\ plan_error' = PlanRaises(reply)
         /\ UNCHANGED plan
    ELSE /\ ppc' = "returned"
         /\ plan' = ExecutionPlan(Goal,
                                  [i \in 1..Len(reply.json.steps) |->
                                      PlanStep(reply.json.steps[i])],
                                  constraints)
         /\ UNCHANGED plan_error

Plan ==
    /\ ppc = "start"
    /\ \E constraints \in PlanConstraints :
          \/ \E reply \in OtherPlanReplies : PlanWith(reply, constraints)
          \/ \E n \in 0..MaxSteps :
                \E kc \in [1..n -> StepKinds \X Complexities] :
                   PlanWith(StepsReply(n, kc), constraints)
    /\ UNCHANGED <<execVars, complexVars, callVars, libVars>>

\* the body of the loop over plan_data["steps"], on the record step_record
BuildStep ==
    /\ step_record # NoneDict
    /\ step = NoneDict
    /\ step' = PlanStep(step_record)
    /\ UNCHANGED <<execVars, complexVars, ppc, plan, plan_error, callVars,
                   registryVars, step_record, first_call, bucketVars>>

----------------------------------------------------------------------------
(* TaskPlanner.validate_constraints *)

\* the key of the constraints that limits each key of the validation
LimitKey == [time |-> "max_time", cost |-> "max_cost", tokens |-> "max_tokens"]

\* the total of the plan each key of the validation is about
TotalField ==
    [time   |-> "total_estimated_time",
     cost   |-> "total_estimated_cost",
     tokens |-> "total_estimated_tokens"]

\* WithinLimit with a strict comparison
BelowLimit(total, limit) == total < limit

\* plan.total_estimated_x <= constraints["max_x"]
WithinLimit(total, limit) == total <= limit

\* the validation dict: one key for each limit the constraints hold
ValidateConstraints(p, constraints) ==
    [k \in {x \in DOMAIN LimitKey : LimitKey[x] \in DOMAIN constraints} |->
        WithinLimit(p[TotalField[k]], constraints[LimitKey[k]])]

\* the limits a caller passes: seconds, 1/10000 USD, tokens
Limits == [max_time |-> {50, 60}, max_cost |-> {400, 650}, max_tokens |-> {4000, 6500}]

\* the caller may follow a returned plan with one more call on it
MayCallOn ==
    /\ ppc = "returned"
    /\ rpc = "idle"
    /\ validation = NoneDict

Validate ==
    /\ MayCallOn
    /\ \E keys \in SUBSET DOMAIN Limits :
          \E c \in [keys -> UNION {Limits[k] : k \in DOMAIN Limits}] :
             /\ \A k \in keys : c[k] \in Limits[k]
             /\ vconstraints' = c
             /\ validation' = ValidateConstraints(plan, c)
    /\ UNCHANGED <<execVars, complexVars, ppc, plan, plan_error,
                   rpc, replan_ret, updated_plan, oracle, progress, libVars>>

----------------------------------------------------------------------------
(* TaskPlanner.replan *)

\* the plan object passed as original_plan, and the one the nested plan creates
OriginalRef == "original_plan"
UpdatedRef == "updated_plan"

\* the replies the plan call nested in replan may get: those that make it
\* raise, or n steps of one kind and complexity
ReplanReplies ==
    OtherPlanReplies \cup
    {StepsReply(n, [i \in 1..n |-> kc]) : n \in 0..MaxSteps, kc \in StepKinds \X Complexities}

\* ReplanExcept for an except branch that re-raises, as the one of plan does
ReplanExceptRaises == [pc |-> "raised", ref |-> NoneStr]

\* the except branch of replan: return original_plan
ReplanExcept == [pc |-> "returned", ref |-> OriginalRef]

\* how a call of self.llm.ainvoke ended for the code that made it
OracleOutcome(reply) ==
    IF reply.kind = "raise" THEN "raise"
    ELSE IF PlanRaises(reply) # NoneStr THEN "unparsable"
    ELSE "ok"

\* Replan building the updated plan in the object it was given
ReplanInPlace ==
    /\ MayCallOn
    /\ \E reply \in ReplanReplies :
          /\ oracle' = <<"ok", OracleOutcome(reply)>>
          /\ rpc' = "returned"
          /\ replan_ret' = OriginalRef
          /\ IF PlanRaises(reply) # NoneStr
             THEN UNCHANGED plan
             ELSE plan' = [ExecutionPlan(plan.goal,
                                         [i \in 1..Len(reply.json.steps) |->
                                             PlanStep(reply.json.steps[i])],
                                         plan.constraints)
                             EXCEPT !.updated_at = "utcnow"]
    /\ UNCHANGED <<execVars, complexVars, ppc, plan_error, updated_plan,
                   validation, vconstraints, progress, libVars>>

\* replan(original_plan, execution_results, reason): its own call, whose
\* response is not used, then plan() on the goal and constraints of the
\* original; whatever is raised in between returns the original
Replan ==
    /\ MayCallOn
    /\ \/ /\ oracle' = <<"raise">>
          /\ rpc' = ReplanExcept.pc
          /\ replan_ret' = ReplanExcept.ref
          /\ UNCHANGED updated_plan
       \/ \E reply \in ReplanReplies :
             /\ oracle' = <<"ok", OracleOutcome(reply)>>
             /\ IF PlanRaises(reply) # NoneStr
                THEN /\ rpc' = ReplanExcept.pc
                     /\ replan_ret' = ReplanExcept.ref
                     /\ UNCHANGED updated_plan
                ELSE /\ rpc' = "returned"
                     /\ replan_ret' = UpdatedRef
                     /\ updated_plan' =
                           [ExecutionPlan(plan.goal,
                                          [i \in 1..Len(reply.json.steps) |->
                                              PlanStep(reply.json.steps[i])],
                                          plan.constraints)
                              EXCEPT !.updated_at = "utcnow"]
    /\ UNCHANGED <<execVars, complexVars, ppc, plan, plan_error,
                   validation, vconstraints, progress, libVars>>

----------------------------------------------------------------------------
(* TaskPlanner.get_progress *)

\* the statuses of TaskStatus
TaskStatuses == {"planned", "in_progress", "completed", "failed", "blocked", "cancelled"}

\* sum(1 for s in steps if s.status == status)
RECURSIVE CountSteps(_, _)
CountSteps(steps, status) ==
    IF steps = << >> THEN 0
    ELSE (IF Head(steps).status = status THEN 1 ELSE 0) + CountSteps(Tail(steps), status)

\* SumActual adding the estimate of a step that has no actual value
RECURSIVE SumActualOrEstimate(_, _)
SumActualOrEstimate(steps, field) ==
    IF steps = << >> THEN 0
    ELSE (IF Head(steps)[field] # << >> /\ Head(steps)[field][1] # 0
          THEN Head(steps)[field][1]
          ELSE IF field = "actual_time" THEN Head(steps).estimated_time
          ELSE Head(steps).estimated_cost) + SumActualOrEstimate(Tail(steps), field)

\* sum(s.f or 0 for s in steps if s.f), f an Optional number: << >> is None
RECURSIVE SumActual(_, _)
SumActual(steps, field) ==
    IF steps = << >> THEN 0
    ELSE (IF Head(steps)[field] # << >> /\ Head(steps)[field][1] # 0
          THEN Head(steps)[field][1] ELSE 0) + SumActual(Tail(steps), field)

\* round(a / b * 100, 1) in tenths of a percent, for 0 <= a <= b and b > 0;
\* no quotient is half-way between two tenths when b < 16
RoundPct(a, b) == (2000 * a + b) \div (2 * b)

\* the dict get_progress returns; progress_percentage in tenths of a percent
GetProgress(p) ==
    LET total == Len(p.steps)
        done == CountSteps(p.steps, "completed")
        actual_time == SumActual(p.steps, "actual_time")
        actual_cost == SumActual(p.steps, "actual_cost")
    IN  [total_steps         |-> total,
         completed           |-> done,
         in_progress         |-> CountSteps(p.steps, "in_progress"),
         failed              |-> CountSteps(p.steps, "failed"),
         blocked             |-> CountSteps(p.steps, "blocked"),
         progress_percentage |-> IF total > 0 THEN RoundPct(done, total) ELSE 0,
         estimated_time      |-> p.total_estimated_time,
         actual_time         |-> actual_time,
         estimated_cost      |-> p.total_estimated_cost,
         actual_cost         |-> actual_cost,
         time_variance       |-> IF actual_time > 0
                                 THEN actual_time - p.total_estimated_time ELSE 0,
         cost_variance       |-> IF actual_cost > 0
                                 THEN actual_cost - p.total_estimated_cost ELSE 0]

GetProgressCall ==
    /\ ppc = "given"
    /\ progress = NoneDict
    /\ progress' = GetProgress(plan)
    /\ UNCHANGED <<execVars, complexVars, ppc, plan, plan_error,
                   validation, vconstraints, rpc, replan_ret, updated_plan, oracle,
                   libVars>>

\* no call was made on a plan
NoCalls ==
    /\ validation = NoneDict
    /\ vconstraints = NoneDict
    /\ rpc = "idle"
    /\ replan_ret = NoneStr
    /\ updated_plan = NoneDict
    /\ oracle = << >>
    /\ progress = NoneDict

----------------------------------------------------------------------------
(* PromptRegistry (backend/app/prompts/registry.py) *)

\* the names prompts are registered under
Names == {"research_prompt", "test_prompt"}

\* the templates registered
Templates == {"First", "Second"}

\* the version argument of register: None, or an explicit version string
VersionArgs == {NoneStr, "v1", "v2"}

\* PromptVersion(version, template, ...); variables and metadata are stored
\* as passed and created_at is the clock's value: none of them is read again
PromptVersion(version, template) == [version |-> version, template |-> template]

\* json.dump([v.dict() for v in versions]) and PromptVersion(**v) of what
\* json.load returns: a str field is written and read back as itself
DumpVersions(versions) ==
    [i \in 1..Len(versions) |->
        [version |-> versions[i].version, template |-> versions[i].template]]

LoadVersions(data) ==
    [i \in 1..Len(data) |-> PromptVersion(data[i].version, data[i].template)]

\* self._cache after list_versions(name): a file not yet loaded is loaded
CacheAfterList(c, name) ==
    IF name \in DOMAIN c THEN c
    ELSE IF name \notin DOMAIN files THEN c
    ELSE c @@ (name :> LoadVersions(files[name]))

\* list_versions(name): the cached list, else [] when there is no file
ListVersions(c, name) ==
    IF name \in DOMAIN CacheAfterList(c, name)
    THEN CacheAfterList(c, name)[name]
    ELSE << >>

\* f"v{len(existing) + 1}"
AutoVersion(existing) == "v" \o ToString(Len(existing) + 1)

\* get(name, version): the last of the list, or the first with the version
GetPrompt(c, name, version) ==
    LET versions == ListVersions(c, name)
    IN  IF versions = << >> THEN NoneDict
        ELSE IF version = NoneStr THEN versions[Len(versions)]
        ELSE IF \E i \in 1..Len(versions) : versions[i].version = version
        THEN LET i == CHOOSE i \in 1..Len(versions) :
                         /\ versions[i].version = version
                         /\ \A j \in 1..(i - 1) : versions[j].version # version
             IN  versions[i]
        ELSE NoneDict

\* register(name, template, variables, metadata, version).  _save_version
\* appends to the list list_versions returns, which is the cached list
\* itself when the name is cached, and dumps it; register then appends to
\* self._cache[name]
Register(name, template, version) ==
    LET c1 == IF version = NoneStr THEN CacheAfterList(cache, name) ELSE cache
        v  == IF version = NoneStr THEN AutoVersion(ListVersions(cache, name)) ELSE version
        prompt_version == PromptVersion(v, template)
        c2 == CacheAfterList(c1, name)
        cached == name \in DOMAIN c2
        saved == Append(ListVersions(c1, name), prompt_version)
        c3 == IF cached THEN [c2 EXCEPT ![name] = saved] ELSE c2 @@ (name :> << >>)
    IN  /\ Len(registered[name]) < MaxRegs
        /\ files' = [n \in DOMAIN files \cup {name} |->
                        IF n = name THEN DumpVersions(saved) ELSE files[n]]
        /\ cache' = [c3 EXCEPT ![name] = Append(@, prompt_version)]
        /\ registered' = [registered EXCEPT ![name] =
                             Append(@, [prompt |-> prompt_version,
                                        auto   |-> version = NoneStr])]
        /\ UNCHANGED <<execVars, complexVars, ppc, plan, plan_error, callVars, stepVars,
                       first_call, bucketVars>>

\* a registry on which nothing was registered, over an empty directory
NewRegistry ==
    /\ cache = << >>
    /\ files = << >>
    /\ registered = [n \in Names |-> << >>]

----------------------------------------------------------------------------
(* TokenBucket.consume (backend/app/middleware/rate_limit.py), for one key *)

\* the requests of the client that are in flight together
Callers == 1..MaxCallers

\* elapsed * self.refill_rate when no time passes between the calls
RefillAmount == 0

Min(a, b) == IF a <= b THEN a ELSE b

\* await cache.get(f"rate_limit:{key}"): the call reads the stored bucket
ConsumeGet(p) ==
    /\ bpc[p] = "start"
    /\ bucket_data' = [bucket_data EXCEPT ![p] = redis]
    /\ bpc' = [bpc EXCEPT ![p] = "got"]
    /\ UNCHANGED <<execVars, complexVars, ppc, plan, plan_error, callVars,
                   registryVars, stepVars, first_call, redis, allowed>>

\* the tokens after the refill: min(capacity, tokens + refill_amount)
Refilled(tokens) == Min(Capacity, tokens + RefillAmount)

\* the rest of consume(key, 1), from what the call read: a new bucket of
\* capacity - 1 tokens, or the refilled bucket less one token when it holds
\* one; the bucket is written back with cache.set and the call returns
ConsumeSet(p) ==
    /\ bpc[p] = "got"
    /\ IF bucket_data[p] = << >>
       THEN /\ redis' = <<Capacity - 1>>
            /\ allowed' = [allowed EXCEPT ![p] = "True"]
       ELSE IF Refilled(bucket_data[p][1]) >= 1
       THEN /\ redis' = <<Refilled(bucket_data[p][1]) - 1>>
            /\ allowed' = [allowed EXCEPT ![p] = "True"]
       ELSE /\ redis' = <<Refilled(bucket_data[p][1])>>
            /\ allowed' = [allowed EXCEPT ![p] = "False"]
    /\ bpc' = [bpc EXCEPT ![p] = "returned"]
    /\ UNCHANGED <<execVars, complexVars, ppc, plan, plan_error, callVars,
                   registryVars, stepVars, first_call, bucket_data>>

\* no request has reached the rate limiter
NoBucket ==
    /\ redis = << >>
    /\ bpc = << >>
    /\ bucket_data = << >>
    /\ allowed = << >>

\* no step record is being processed on its own
NoStep ==
    /\ step_record = NoneDict
    /\ step = NoneDict

\* the registry is not part of the run
NoLib == NewRegistry /\ NoStep /\ first_call = NoneDict /\ NoBucket

----------------------------------------------------------------------------
(* One call of execute_complex_task on a new orchestrator *)

Init ==
    /\ tasks = << >>
    /\ completed = {}
    /\ ready_tasks = << >>
    /\ pc = "idle"
    /\ tpc = << >>
    /\ rets = << >>
    /\ calls = << >>
    /\ run = << >>
    /\ hist = << >>
    /\ agents = {}
    /\ iters = 0
    /\ cpc = "start"
    /\ decompose_error = NoException
    /\ synthesis = NotSynthesized
    /\ report = NoneDict
    /\ ppc = "idle"
    /\ plan = NoneDict
    /\ plan_error = NoneStr
    /\ NoCalls
    /\ NoLib

Next ==
    \/ Decompose
    \/ ExecuteTasksEnter
    \/ WhileIteration
    \/ \E i \in Idx : StartTask(i)
    \/ \E i \in Idx : FinishTask(i)
    \/ MarkCompleted
    \/ SynthesizeResults
    \/ BuildReport
    \/ ReportError

Spec == Init /\ [][Next]_vars

\* the steps of one call of execute_tasks
ExecuteTasksStep ==
    \/ ExecuteTasksEnter
    \/ WhileIteration
    \/ \E i \in Idx : StartTask(i)
    \/ \E i \in Idx : FinishTask(i)
    \/ MarkCompleted

\* the event loop runs the coroutines that can run, and every awaited
\* executor run returns or raises
SpecFair == Spec /\ WF_vars(ExecuteTasksStep)

----------------------------------------------------------------------------
(* execute_tasks called again on the list its first call returned or      *)
(* raised on                                                               *)

\* the caller passes the same list to a second call, which starts with its
\* own task_map and completed set
ExecuteTasksAgain ==
    /\ pc \in {"returned", "raised"}
    /\ first_call = NoneDict
    /\ first_call' = [tasks |-> tasks, calls |-> calls, run |-> run, ended |-> pc]
    /\ pc' = "called"
    /\ iters' = 0
    /\ UNCHANGED <<tasks, completed, ready_tasks, tpc, rets, calls, agents, run, hist,
                   complexVars, ppc, plan, plan_error, callVars, registryVars, stepVars,
                   bucketVars>>

NextAgain ==
    \/ Decompose
    \/ ExecuteTasksStep
    \/ ExecuteTasksAgain

SpecAgain == Init /\ [][NextAgain]_vars

----------------------------------------------------------------------------
(* One call of TaskPlanner.plan on a new planner *)

InitPlan ==
    /\ tasks = << >>
    /\ completed = {}
    /\ ready_tasks = << >>
    /\ pc = "idle"
    /\ tpc = << >>
    /\ rets = << >>
    /\ calls = << >>
    /\ run = << >>
    /\ hist = << >>
    /\ agents = {}
    /\ iters = 0
    /\ cpc = "idle"
    /\ decompose_error = NoException
    /\ synthesis = NotSynthesized
    /\ report = NoneDict
    /\ ppc = "start"
    /\ plan = NoneDict
    /\ plan_error = NoneStr
    /\ NoCalls
    /\ NoLib

NextPlan ==
    \/ Plan
    \/ Validate
    \/ Replan

SpecPlan == InitPlan /\ [][NextPlan]_vars

----------------------------------------------------------------------------
(* The execute-plan endpoint: TaskPlanner.plan on the goal, then           *)
(* execute_complex_task on the goal                                         *)

\* the replies the planning call gets here: it raises, or n research steps
FlowPlanReplies ==
    {[kind |-> "raise"]} \cup
    {StepsReply(n, [i \in 1..n |-> <<"research", "medium">>]) : n \in 0..MaxSteps}

\* step 1: planner.plan(goal, context, constraints); what it raises leaves
\* the endpoint as an HTTP 500
ExecutePlanPlan ==
    /\ ppc = "start"
    /\ cpc = "wait"
    /\ \E reply \in FlowPlanReplies :
          /\ PlanWith(reply, [k \in {} |-> 0])
          /\ cpc' = IF PlanRaises(reply) # NoneStr THEN "http_error" ELSE "start"
    /\ UNCHANGED <<execVars, decompose_error, synthesis, report, callVars, libVars>>

InitExecutePlan ==
    /\ tasks = << >>
    /\ completed = {}
    /\ ready_tasks = << >>
    /\ pc = "idle"
    /\ tpc = << >>
    /\ rets = << >>
    /\ calls = << >>
    /\ run = << >>
    /\ hist = << >>
    /\ agents = {}
    /\ iters = 0
    /\ cpc = "wait"
    /\ decompose_error = NoException
    /\ synthesis = NotSynthesized
    /\ report = NoneDict
    /\ ppc = "start"
    /\ plan = NoneDict
    /\ plan_error = NoneStr
    /\ NoCalls
    /\ NoLib

\* step 2 is execute_complex_task(plan_request.goal)
NextExecutePlan ==
    \/ ExecutePlanPlan
    \/ Next

SpecExecutePlan == InitExecutePlan /\ [][NextExecutePlan]_vars

----------------------------------------------------------------------------
(* One call of get_progress on a plan whose steps some caller updated *)

\* a step of the plan given: its status and what was recorded for it
GivenStep(i, status, actual_time, actual_cost) ==
    [PlanStep(StepData(i, "research", "medium")) EXCEPT
        !.status = status, !.actual_time = actual_time, !.actual_cost = actual_cost]

\* what a step given may hold: status, Optional seconds, Optional 1/10000 USD
GivenStates ==
    {"planned", "completed", "failed"} \X {<< >>, <<0>>, <<40>>} \X {<< >>, <<300>>}

InitProgress ==
    /\ tasks = << >>
    /\ completed = {}
    /\ ready_tasks = << >>
    /\ pc = "idle"
    /\ tpc = << >>
    /\ rets = << >>
    /\ calls = << >>
    /\ run = << >>
    /\ hist = << >>
    /\ agents = {}
    /\ iters = 0
    /\ cpc = "idle"
    /\ decompose_error = NoException
    /\ synthesis = NotSynthesized
    /\ report = NoneDict
    /\ ppc = "given"
    /\ \E n \in 0..MaxGiven :
          \E g \in [1..n -> GivenStates] :
             plan = ExecutionPlan(Goal,
                                  [i \in 1..n |-> GivenStep(i, g[i][1], g[i][2], g[i][3])],
                                  [k \in {} |-> 0])
    /\ plan_error = NoneStr
    /\ NoCalls
    /\ NoLib

NextProgress == GetProgressCall

SpecProgress == InitProgress /\ [][NextProgress]_vars

----------------------------------------------------------------------------
(* register calls on one PromptRegistry over an empty storage directory *)

InitRegistry ==
    /\ tasks = << >>
    /\ completed = {}
    /\ ready_tasks = << >>
    /\ pc = "idle"
    /\ tpc = << >>
    /\ rets = << >>
    /\ calls = << >>
    /\ run = << >>
    /\ hist = << >>
    /\ agents = {}
    /\ iters = 0
    /\ cpc = "idle"
    /\ decompose_error = NoException
    /\ synthesis = NotSynthesized
    /\ report = NoneDict
    /\ ppc = "idle"
    /\ plan = NoneDict
    /\ plan_error = NoneStr
    /\ NoCalls
    /\ NewRegistry
    /\ NoStep
    /\ first_call = NoneDict
    /\ NoBucket

NextRegistry ==
    \E name \in Names, template \in Templates, version \in VersionArgs :
        Register(name, template, version)

SpecRegistry == InitRegistry /\ [][NextRegistry]_vars

----------------------------------------------------------------------------
(* The estimates of one step record, for every kind and complexity *)

\* the keys besides the required ones a step record may have
OptionalStepKeys == {"dependencies", "risks"}

InitStep ==
    /\ tasks = << >>
    /\ completed = {}
    /\ ready_tasks = << >>
    /\ pc = "idle"
    /\ tpc = << >>
    /\ rets = << >>
    /\ calls = << >>
    /\ run = << >>
    /\ hist = << >>
    /\ agents = {}
    /\ iters = 0
    /\ cpc = "idle"
    /\ decompose_error = NoException
    /\ synthesis = NotSynthesized
    /\ report = NoneDict
    /\ ppc = "idle"
    /\ plan = NoneDict
    /\ plan_error = NoneStr
    /\ NoCalls
    /\ NewRegistry
    /\ \E kind \in StepKinds, complexity \in Complexities, opt \in SUBSET OptionalStepKeys :
          step_record = [k \in DOMAIN StepData(1, kind, complexity) \cup opt |->
                          IF k \in opt THEN << >> ELSE StepData(1, kind, complexity)[k]]
    /\ step = NoneDict
    /\ first_call = NoneDict
    /\ NoBucket

NextStep == BuildStep

SpecStep == InitStep /\ [][NextStep]_vars

----------------------------------------------------------------------------
(* Requests of one client reaching the rate limiter together, on a key    *)
(* the cache holds nothing for                                             *)

InitBucket ==
    /\ tasks = << >>
    /\ completed = {}
    /\ ready_tasks = << >>
    /\ pc = "idle"
    /\ tpc = << >>
    /\ rets = << >>
    /\ calls = << >>
    /\ run = << >>
    /\ hist = << >>
    /\ agents = {}
    /\ iters = 0
    /\ cpc = "idle"
    /\ decompose_error = NoException
    /\ synthesis = NotSynthesized
    /\ report = NoneDict
    /\ ppc = "idle"
    /\ plan = NoneDict
    /\ plan_error = NoneStr
    /\ NoCalls
    /\ NewRegistry
    /\ NoStep
    /\ first_call = NoneDict
    /\ redis = << >>
    /\ bpc = [p \in Callers |-> "start"]
    /\ bucket_data = [p \in Callers |-> << >>]
    /\ allowed = [p \in Callers |-> NoneStr]

NextBucket ==
    \/ \E p \in Callers : ConsumeGet(p)
    \/ \E p \in Callers : ConsumeSet(p)

SpecBucket == InitBucket /\ [][NextBucket]_vars

----------------------------------------------------------------------------
(* The dependency relation of the task list *)

\* the tasks a task names in its dependencies
DepIdx(i) == {j \in Idx : tasks[j].task_id \in Range(tasks[i].dependencies)}

RECURSIVE DepClosure(_)
DepClosure(S) ==
    LET T == S \cup UNION {DepIdx(j) : j \in S}
    IN  IF T = S THEN S ELSE DepClosure(T)

\* the transitive dependencies of a task
TransDeps(i) == DepClosure(DepIdx(i))

Acyclic == \A i \in Idx : i \notin TransDeps(i)

UniqueIds == \A i, j \in Idx : tasks[i].task_id = tasks[j].task_id => i = j

\* every dependency entry is the id of a task of the list
NoDangling ==
    \A i \in Idx : \A d \in Range(tasks[i].dependencies) :
        \E j \in Idx : tasks[j].task_id = d

Terminal == {"completed", "failed"}

\* the status the executor's own outcome gives a task that was run
StatusByOutcome(i) ==
    IF run[i].kind = "return" /\ DictGet(run[i].value, "success", FALSE)
    THEN "completed" ELSE "failed"

----------------------------------------------------------------------------
(* Claims *)

\* C1: on an acyclic task list with unique ids, a task on which execute_task
\* was called (it became running) has every dependency naming a task whose
\* status is completed.
C1_DependencyOrdering ==
    \A i \in Idx :
        (calls[i] > 0 \/ tasks[i].status = "running") =>
            \/ \A d \in Range(tasks[i].dependencies) :
                  \E j \in Idx : tasks[j].task_id = d /\ tasks[j].status = "completed"
            \/ ~(UniqueIds /\ Acyclic)

\* a task with two dependencies is running
C1_Witness ==
    /\ Acyclic
    /\ UniqueIds
    /\ \E i \in Idx : tasks[i].status = "running" /\ Len(tasks[i].dependencies) = 2

\* what C2 says of a task once execute_tasks has returned
IsolatedOutcome(i) ==
    IF \E j \in TransDeps(i) : tasks[j].status = "failed"
    THEN calls[i] = 0 /\ tasks[i].status = "pending"
    ELSE calls[i] = 1 /\ tasks[i].status = StatusByOutcome(i)

\* C2 as stated: after execute_tasks returns on any acyclic graph, a task
\* with a failed transitive dependency was never run and is pending, and
\* every other task was run and is completed or failed by its own outcome.
C2_AsStated ==
    (pc = "returned" /\ Acyclic) => \A i \in Idx : IsolatedOutcome(i)

\* C2 amended: the same, on acyclic graphs with unique ids whose every
\* dependency names a task of the list.
C2_PartialFailureIsolation ==
    pc = "returned" =>
        \/ \A i \in Idx : IsolatedOutcome(i)
        \/ ~(NoDangling /\ UniqueIds /\ Acyclic)

\* a failed task, a pending dependent of it and a completed independent task
C2_Witness ==
    /\ pc = "returned"
    /\ Acyclic /\ UniqueIds /\ NoDangling
    /\ \E a, b, c \in Idx :
          /\ tasks[a].status = "failed"
          /\ a \in TransDeps(b) /\ tasks[b].status = "pending"
          /\ tasks[c].status = "completed"

\* C3: the while loop is entered at most (number of tasks + 1) times and
\* execute_tasks ends, by returning or raising, whatever the dependencies.
C3_Termination ==
    /\ [](iters <= Len(tasks) + 1)
    /\ (pc = "called") ~> (pc \in {"returned", "raised"})

\* execute_tasks returned from a list with a dependency cycle after a wave
\* and a pass that found nothing ready
C3_Witness ==
    /\ pc = "returned"
    /\ ~Acyclic
    /\ iters = 2
    /\ \E i \in Idx : tasks[i].status = "pending"

\* no task is ready, none failed and some task is not terminal
StructuralStall ==
    /\ pc = "returned"
    /\ Failed = {}
    /\ \E i \in Idx : tasks[i].status \notin Terminal

\* C4: the result of a run that stalled on a cyclic or dangling dependency
\* carries an indication of it, beyond the keys every result has.
C4_StructuralErrorReported ==
    (cpc = "done" /\ StructuralStall) =>
        DOMAIN report \ {"success", "synthesis", "tasks", "statistics"} # {}

\* C5: when the wave has ended, every task of it was run once and has its
\* own outcome, whatever its siblings did.
C5_SiblingIsolation ==
    pc # "gather" =>
        \A i \in Range(ready_tasks) :
            /\ calls[i] = 1
            /\ run[i].kind # "none"
            /\ tasks[i].status = StatusByOutcome(i)

\* a task of the wave has failed while a sibling is still running
C5_Witness ==
    /\ pc = "gather"
    /\ \E i, j \in Range(ready_tasks) :
          /\ tasks[i].status = "failed"
          /\ tasks[j].status = "running"

\* C6: a fault in obtaining or running the executor does not leave
\* execute_task: the call returns, the task is failed and its error is the
\* fault's message, as it is the returned error when success is false.
C6_FaultsBecomeFailures ==
    \A i \in Idx :
        /\ run[i].kind \in {"no_agent", "raise"} =>
              /\ tpc[i] = "returned"
              /\ tasks[i].status = "failed"
              /\ tasks[i].error = run[i].msg
              /\ tasks[i].result = NoneDict
              /\ rets[i] = [success |-> FALSE, error |-> run[i].msg]
        /\ (run[i].kind = "return" /\ ~DictGet(run[i].value, "success", FALSE)) =>
              /\ tpc[i] = "returned"
              /\ tasks[i].status = "failed"
              /\ tasks[i].error = DictGet(run[i].value, "error", "Unknown error")
              /\ tasks[i].result = NoneDict

\* one task had no executor and the executor of another raised
C6_Witness ==
    \E i, j \in Idx :
        /\ run[i].kind = "no_agent" /\ tasks[i].agent_type = "sheets"
        /\ run[j].kind = "raise"

RECURSIVE CountStatus(_, _)
CountStatus(list, status) ==
    IF list = << >> THEN 0
    ELSE (IF Head(list).status = status THEN 1 ELSE 0) + CountStatus(Tail(list), status)

\* C8: in a result that has statistics, successful and failed count the
\* completed and the failed tasks, total_tasks is the number of tasks, and
\* success is true exactly when successful > 0.
C8_Statistics ==
    (cpc = "done" /\ "statistics" \in DOMAIN report) =>
        /\ report.statistics.successful = CountStatus(tasks, "completed")
        /\ report.statistics.failed = CountStatus(tasks, "failed")
        /\ report.statistics.total_tasks = Len(tasks)
        /\ report.success = (report.statistics.successful > 0)

\* a result with a completed, a failed and a pending task
C8_Witness ==
    /\ cpc = "done"
    /\ "statistics" \in DOMAIN report
    /\ report.statistics.successful = 1
    /\ report.statistics.failed = 1
    /\ report.statistics.total_tasks = 3

\* the output the executor of a completed task returned, "" when it gave none
OutputReturned(i) ==
    IF "output" \in DOMAIN run[i].value THEN run[i].value.output ELSE << >>

\* the outputs of the completed tasks among the first k, each after the
\* first preceded by a blank line
RECURSIVE OutputsUpTo(_)
OutputsUpTo(k) ==
    IF k = 0 THEN << >>
    ELSE IF tasks[k].status # "completed" THEN OutputsUpTo(k - 1)
    ELSE IF \A j \in 1..(k - 1) : tasks[j].status # "completed" THEN OutputReturned(k)
    ELSE OutputsUpTo(k - 1) \o <<"\n\n">> \o OutputReturned(k)

\* C9: what the fallback of synthesize_results returns is the outputs of the
\* completed tasks, in list order, joined by a blank line, and nothing else.
C9_SynthesisFallback ==
    synthesis.by = "fallback" => synthesis.text = OutputsUpTo(Len(tasks))

\* the fallback joined two outputs around a failed task
C9_Witness ==
    /\ synthesis.by = "fallback"
    /\ Len(tasks) = 3
    /\ tasks[1].status = "completed" /\ OutputReturned(1) # << >>
    /\ tasks[2].status = "failed"
    /\ tasks[3].status = "completed" /\ OutputReturned(3) # << >>

\* C10: when the planning call fails or its reply cannot be parsed into
\* steps, plan returns a plan of one step of the default kind whose
\* description is the goal.
C10_PlanFallback ==
    plan_error # NoneStr =>
        /\ ppc = "returned"
        /\ Len(plan.steps) = 1
        /\ plan.steps[1].agent_type = "research"
        /\ plan.steps[1].description = Goal

\* the sequences of status assignments the state machine
\* pending -> running -> completed | failed allows from pending
StatusPaths ==
    {<< >>, <<"running">>, <<"running", "completed">>, <<"running", "failed">>}

\* C13: the statuses assigned to a task form a path pending -> running ->
\* completed | failed (so a completed or failed task is never assigned a
\* status again), the task's status is the last one assigned, and no task is
\* running once execute_tasks has returned.
C13_TaskStateMachine ==
    /\ \A i \in Idx :
          /\ hist[i] \in StatusPaths
          /\ tasks[i].status = IF hist[i] = << >> THEN "pending" ELSE hist[i][Len(hist[i])]
    /\ pc = "returned" => \A i \in Idx : tasks[i].status # "running"

\* execute_tasks returned with a task that went running -> completed, one
\* that went running -> failed and one left pending
C13_Witness ==
    /\ pc = "returned"
    /\ \E i, j, k \in Idx :
          /\ hist[i] = <<"running", "completed">>
          /\ hist[j] = <<"running", "failed">> /\ run[j].kind = "no_agent"
          /\ hist[k] = << >>

\* C14: in every state a task has a result only if it is completed and an
\* error only if it is failed.
C14_ResultAndErrorPresence ==
    \A i \in Idx :
        /\ tasks[i].result # NoneDict => tasks[i].status = "completed"
        /\ tasks[i].error # NoneStr => tasks[i].status = "failed"

\* a completed task with its result, a failed one with its error, and a
\* running one with neither
C14_Witness ==
    \E i, j, k \in Idx :
        /\ tasks[i].status = "completed" /\ tasks[i].result # NoneDict
        /\ tasks[j].status = "failed" /\ tasks[j].error # NoneStr
        /\ run[j].kind = "return"
        /\ tasks[k].status = "running"
        /\ tasks[k].result = NoneDict /\ tasks[k].error = NoneStr

\* C15: execute_task is only called on tasks of the current wave, and the
\* wave (the ready set) is only replaced when every task of it is completed
\* or failed.
C15_WaveBarrier ==
    [][/\ \A i \in DOMAIN calls \cap DOMAIN calls' :
             calls'[i] > calls[i] => pc = "gather" /\ i \in Range(ready_tasks)
       /\ ready_tasks' # ready_tasks =>
             \A i \in Range(ready_tasks) : tasks[i].status \in Terminal]_vars

\* every dependency of a pending task has completed, the last of them in the
\* current wave, while another task of the wave is still running
C15_Witness ==
    /\ pc = "gather"
    /\ \E i \in Idx, j, k \in Range(ready_tasks) :
          /\ tasks[i].status = "pending" /\ calls[i] = 0
          /\ tasks[i].dependencies # << >>
          /\ \A d \in DepIdx(i) : tasks[d].status = "completed"
          /\ NoDangling /\ UniqueIds
          /\ j \in DepIdx(i)
          /\ tasks[k].status = "running"

C11_ReplanFallback ==
    (rpc # "idle" /\ \E k \in 1..Len(oracle) : oracle[k] # "ok") =>
        /\ rpc = "returned"
        /\ replan_ret = OriginalRef
        /\ updated_plan = NoneDict

\* replan returned the original after its own call succeeded and the call
\* of the nested plan raised
C11_Witness ==
    /\ rpc = "returned"
    /\ oracle = <<"ok", "raise">>
    /\ replan_ret = OriginalRef
    /\ Len(plan.steps) = 2

\* the sum of a field over the steps up to the k-th
RECURSIVE TotalUpTo(_, _, _)
TotalUpTo(steps, field, k) ==
    IF k = 0 THEN 0 ELSE TotalUpTo(steps, field, k - 1) + steps[k][field]

\* the three totals of a plan are the sums of its steps' estimates
TotalsAreSums(p) ==
    /\ p.total_estimated_time = TotalUpTo(p.steps, "estimated_time", Len(p.steps))
    /\ p.total_estimated_cost = TotalUpTo(p.steps, "estimated_cost", Len(p.steps))
    /\ p.total_estimated_tokens = TotalUpTo(p.steps, "estimated_tokens", Len(p.steps))

\* C17: in every plan TaskPlanner.plan returned (to its caller, or to
\* replan) each total is the sum of the per-step estimate over the steps,
\* 0 for a plan with no steps.
C17_ResourceAggregation ==
    /\ ppc = "returned" => TotalsAreSums(plan)
    /\ updated_plan # NoneDict => TotalsAreSums(updated_plan)

\* the plan of a research step at medium and a docs step at high:
\* 30 + 30 s, 0.02 + 0.045 USD, 2000 + 4500 tokens
C17_Witness ==
    /\ ppc = "returned"
    /\ Len(plan.steps) = 2
    /\ plan.steps[1].agent_type = "research" /\ plan.steps[1].estimated_tokens = 2000
    /\ plan.steps[2].agent_type = "docs" /\ plan.steps[2].estimated_tokens = 4500
    /\ plan.total_estimated_time = 60
    /\ plan.total_estimated_cost = 650
    /\ plan.total_estimated_tokens = 6500

\* C18: the dict validate_constraints returned has the key time / cost /
\* tokens exactly when the constraints have max_time / max_cost /
\* max_tokens, and each value is true exactly when the plan's total is at
\* most the limit.
C18_ConstraintValidation ==
    validation # NoneDict =>
        /\ "time" \in DOMAIN validation <=> "max_time" \in DOMAIN vconstraints
        /\ "cost" \in DOMAIN validation <=> "max_cost" \in DOMAIN vconstraints
        /\ "tokens" \in DOMAIN validation <=> "max_tokens" \in DOMAIN vconstraints
        /\ DOMAIN validation \subseteq {"time", "cost", "tokens"}
        /\ "time" \in DOMAIN validation =>
              (validation.time <=> plan.total_estimated_time <= vconstraints.max_time)
        /\ "cost" \in DOMAIN validation =>
              (validation.cost <=> plan.total_estimated_cost <= vconstraints.max_cost)
        /\ "tokens" \in DOMAIN validation =>
              (validation.tokens <=> plan.total_estimated_tokens <= vconstraints.max_tokens)

\* a plan of 60 s against max_time = 50 and max_tokens equal to its total:
\* time is false, tokens is true and cost is absent
C18_Witness ==
    /\ validation # NoneDict
    /\ plan.total_estimated_time = 60
    /\ vconstraints = [max_time |-> 50, max_tokens |-> 6500]
    /\ plan.total_estimated_tokens = 6500
    /\ validation = [time |-> FALSE, tokens |-> TRUE]

\* C12: in the execute-plan flow the tasks execute_complex_task works on
\* are the steps of the plan TaskPlanner.plan returned: as many, with the
\* same ids, kinds, descriptions and dependencies.
C12_ExecutedTasksArePlanSteps ==
    (ppc = "returned" /\ cpc \notin {"wait", "start"}) =>
        /\ Len(tasks) = Len(plan.steps)
        /\ \A i \in 1..Len(tasks) :
              /\ tasks[i].task_id = plan.steps[i].step_id
              /\ tasks[i].agent_type = plan.steps[i].agent_type
              /\ tasks[i].description = plan.steps[i].description
              /\ tasks[i].dependencies = plan.steps[i].dependencies

\* the task object holds a duration for its run
DurationRecorded(i) ==
    \/ "actual_time" \in DOMAIN tasks[i] /\ tasks[i].actual_time # << >>
    \/ "actual_time" \in DOMAIN tasks[i].metadata

\* C19: once execute_tasks has returned, every completed or failed task
\* has a duration recorded for its run and a task that was never run has none.
C19_ActualDurationRecorded ==
    pc = "returned" =>
        \A i \in Idx :
            /\ tasks[i].status \in Terminal => DurationRecorded(i)
            /\ calls[i] = 0 => ~DurationRecorded(i)

\* the sum of an Optional field over the steps up to the k-th
RECURSIVE ActualUpTo(_, _, _)
ActualUpTo(steps, field, k) ==
    IF k = 0 THEN 0
    ELSE ActualUpTo(steps, field, k - 1)
         + (IF steps[k][field] = << >> THEN 0 ELSE steps[k][field][1])

\* what C20 says of the dict get_progress returned for the plan: the
\* percentage is completed/total to the nearest tenth of a percent
ProgressAggregates(d, p) ==
    LET t == Len(p.steps)
        c == Cardinality({i \in 1..t : p.steps[i].status = "completed"})
        at == ActualUpTo(p.steps, "actual_time", t)
        ac == ActualUpTo(p.steps, "actual_cost", t)
    IN  /\ t = 0 => d.progress_percentage = 0
        /\ t > 0 => /\ 2 * (d.progress_percentage * t - 1000 * c) <= t
                    /\ 2 * (1000 * c - d.progress_percentage * t) <= t
        /\ d.time_variance = IF at > 0 THEN at - p.total_estimated_time ELSE 0
        /\ d.cost_variance = IF ac > 0 THEN ac - p.total_estimated_cost ELSE 0

\* C20: get_progress reports completed/total as a percentage, to the
\* nearest tenth of a percent (0 for a plan with no steps), and each variance as the sum of the actuals minus the
\* total estimate when that sum is greater than 0 and as 0 otherwise; it
\* returns for every plan given and leaves the plan as it was.
C20_ProgressAggregation ==
    /\ [](progress # NoneDict => ProgressAggregates(progress, plan))
    /\ [](progress = NoneDict => ENABLED GetProgressCall)
    /\ [][plan' = plan]_vars

\* one of three steps completed (33.3 %), 40 s recorded against 90 s
\* estimated, and no cost recorded
C20_Witness ==
    /\ progress # NoneDict
    /\ Len(plan.steps) = 3
    /\ progress.completed = 1
    /\ progress.progress_percentage = 333
    /\ progress.time_variance = 0 - 50
    /\ progress.cost_variance = 0
    /\ plan.total_estimated_cost = 600

\* the prompts the register calls for a name returned, in call order
RegisteredPrompts(name) ==
    [i \in 1..Len(registered[name]) |-> registered[name][i].prompt]

\* C21: list_versions(name) is the list of the prompts registered under the
\* name, one entry for each register call in call order, and get(name)
\* without a version is the prompt registered last.
C21_VersionList ==
    \A name \in Names :
        /\ ListVersions(cache, name) = RegisteredPrompts(name)
        /\ registered[name] # << >> =>
              GetPrompt(cache, name, NoneStr) =
                  registered[name][Len(registered[name])].prompt

\* C22: the n-th register call for a name, when made without a version,
\* returns version "v<n>".
C22_AutoVersion ==
    \A name \in Names :
        \A n \in 1..Len(registered[name]) :
            registered[name][n].auto =>
                registered[name][n].prompt.version = "v" \o ToString(n)

\* C23: when the try block of decompose_task raised (the call failed, the
\* text was not JSON, or a record lacked a required key) the call returned:
\* the list is the single task task_1 of kind research for the whole
\* description, without dependencies, and it is pending when execute_tasks
\* is called on it; no task of the reply is in the list.
C23_DecompositionFallback ==
    decompose_error # NoException =>
        /\ cpc # "start"
        /\ Len(tasks) = 1
        /\ tasks[1].task_id = "task_1"
        /\ tasks[1].agent_type = "research"
        /\ tasks[1].description = Goal
        /\ tasks[1].dependencies = << >>
        /\ pc = "called" =>
              /\ tasks[1].status = "pending"
              /\ tasks[1].result = NoneDict
              /\ tasks[1].error = NoneStr

\* the third record of a reply lacked a key: the list returned is the fallback
C23_Witness ==
    /\ decompose_error.exc = "KeyError"
    /\ decompose_error.at = 3
    /\ pc = "called"
    /\ Len(tasks) = 1

\* C24: a call of replan leaves every field of the plan it was given as it
\* was, whether it returns the original or an updated plan; an updated plan
\* is another object, with the goal and the constraints of the original and
\* with updated_at set.
C24_ReplanFrame ==
    [][rpc' # rpc =>
          /\ plan' = plan
          /\ replan_ret' \in {OriginalRef, UpdatedRef}
          /\ replan_ret' = UpdatedRef =>
                /\ UpdatedRef # OriginalRef
                /\ updated_plan'.goal = plan.goal
                /\ updated_plan'.constraints = plan.constraints
                /\ updated_plan'.updated_at # NoneStr
                /\ plan'.updated_at = NoneStr]_vars

\* replan returned an updated plan whose steps are not those of the original,
\* which has constraints
C24_Witness ==
    /\ rpc = "returned"
    /\ replan_ret = UpdatedRef
    /\ plan.constraints = [max_time |-> 50]
    /\ Len(plan.steps) = 2
    /\ updated_plan.steps # plan.steps
    /\ plan.updated_at = NoneStr

\* the default table: base time (s), cost (1/1000 USD) and tokens of a kind
ClaimedBase ==
    [research |-> <<30, 20, 2000>>,
     docs     |-> <<20, 30, 3000>>,
     sheets   |-> <<15, 20, 1500>>,
     slides   |-> <<25, 30, 2500>>]

\* the multipliers of the three complexities, in tenths
ClaimedMultiplier == [low |-> 7, medium |-> 10, high |-> 15]

\* C25: for a step record whose complexity is low, medium or high, each
\* estimate of the step built is the base coefficient of the record's kind
\* (of research for a kind not in the table) times the multiplier.
C25_PerStepEstimates ==
    (step # NoneDict /\ "complexity" \in DOMAIN step_record
                     /\ step_record.complexity \in DOMAIN ClaimedMultiplier) =>
        LET base == IF step_record.agent_type \in DOMAIN ClaimedBase
                    THEN ClaimedBase[step_record.agent_type]
                    ELSE ClaimedBase["research"]
            m == ClaimedMultiplier[step_record.complexity]
        IN  /\ 10 * step.estimated_time = base[1] * m
            /\ step.estimated_cost = base[2] * m
            /\ 10 * step.estimated_tokens = base[3] * m

\* the attributes of a task execute_tasks and execute_task never assign
FrameFields == {"task_id", "agent_type", "description", "dependencies", "metadata"}

\* C26: once the list is built, no step changes its length or order, the
\* attributes a task has, or a task's task_id, agent_type, description,
\* dependencies or metadata; a step changes at most one task, and only a
\* step of that task's own execute_task coroutine does.
C26_ExecuteTasksFrame ==
    [][cpc # "start" =>
          /\ Len(tasks') = Len(tasks)
          /\ \A i \in Idx :
                /\ DOMAIN tasks'[i] = DOMAIN tasks[i]
                /\ \A f \in FrameFields : tasks'[i][f] = tasks[i][f]
                /\ tasks'[i] # tasks[i] =>
                      /\ pc = "gather"
                      /\ tpc'[i] # tpc[i]
                      /\ \A j \in Idx \ {i} : tasks'[j] = tasks[j] /\ tpc'[j] = tpc[j]]_vars

\* two tasks that ran in one wave have ended differently, a third is
\* pending, and execute_tasks has returned
C26_Witness ==
    /\ pc = "returned"
    /\ Len(tasks) = 3
    /\ \E i, j, k \in Idx :
          /\ tasks[i].status = "completed" /\ tasks[i].result # NoneDict
          /\ tasks[j].status = "failed" /\ tasks[j].error # NoneStr
          /\ tasks[k].status = "pending" /\ tasks[k].dependencies # << >>
          /\ hist[i] # << >> /\ hist[j] # << >>

RECURSIVE TimesAssigned(_, _)
TimesAssigned(h, status) ==
    IF h = << >> THEN 0
    ELSE (IF Head(h) = status THEN 1 ELSE 0) + TimesAssigned(Tail(h), status)

\* C28: execute_task is called at most once on each task, so its executor
\* runs at most once: a task became running at most once and got at most
\* one final status, and a task with an outcome was called exactly once.
C28_AtMostOnce ==
    \A i \in Idx :
        /\ calls[i] <= 1
        /\ TimesAssigned(hist[i], "running") <= 1
        /\ TimesAssigned(hist[i], "completed") + TimesAssigned(hist[i], "failed") <= 1
        /\ run[i] # NotRun => calls[i] = 1

\* a task failed and another completed in the first wave, and a later wave
\* ran a third task without running either of them again
C28_Witness ==
    /\ pc = "returned"
    /\ iters >= 3
    /\ \E i, j, k \in Idx :
          /\ hist[i] = <<"running", "failed">> /\ tasks[i].dependencies = << >>
          /\ hist[j] = <<"running", "completed">> /\ tasks[j].dependencies = << >>
          /\ tasks[k].dependencies = <<tasks[j].task_id>> /\ calls[k] = 1
          /\ calls[i] = 1 /\ calls[j] = 1

\* C29: in a second call of execute_tasks on the same list no execute_task
\* coroutine is started (the call never reaches a gather), the loop body is
\* entered at most once and the call then returns or raises, and every task
\* and call count stays as the first call left it.
C29_ReExecutionNoOp ==
    first_call # NoneDict =>
        /\ pc \in {"called", "while", "returned", "raised"}
        /\ pc \in {"called", "while"} => iters = 0 /\ ENABLED ExecuteTasksStep
        /\ iters <= 1
        /\ tasks = first_call.tasks
        /\ calls = first_call.calls
        /\ run = first_call.run

\* the second call has returned after a first call that returned with a
\* completed, a failed and a pending task
C29_Witness ==
    /\ first_call # NoneDict
    /\ first_call.ended = "returned"
    /\ pc = "returned"
    /\ {tasks[i].status : i \in Idx} = {"completed", "failed", "pending"}

\* C30: with no refill, at most `capacity` calls of consume for the key
\* have returned True, and the token count stored for the key is between 0
\* and capacity.
C30_BurstCap ==
    /\ Cardinality({p \in DOMAIN allowed : allowed[p] = "True"}) <= Capacity
    /\ redis # << >> => redis[1] >= 0 /\ redis[1] <= Capacity

====
